---- MODULE Spec2Model ----
(***************************************************************************)
(* The update pipeline of meilidb-data's Index                             *)
(* (src/meilidb-data/src/database/index/mod.rs): the durable update queue  *)
(* (the "<name>-updates" tree), the result tree ("<name>-updates-results"),*)
(* the background update worker spawned by Index::new_raw, the enqueuing   *)
(* callers (raw_push_update), the blocking status query and the cache      *)
(* snapshot readers load with as_ref().                                    *)
(*                                                                         *)
(* The key-value store (sled) is modelled by its contract: ordered trees,  *)
(* generate_id, multi-tree transactions whose writes are staged and become *)
(* visible together at commit, and prefix subscriptions that receive one   *)
(* event per committed write.  The four appliers live outside mod.rs; they *)
(* are modelled from their contracts (section 4.7 of the specification).   *)
(***************************************************************************)
EXTENDS Integers, Sequences, FiniteSets, TLC

\* ------------------------------------------------------------------ bounds
\* Number of ids sled's generate_id hands out in a run.
MaxIds == 2
\* Number of Index::new_raw calls in a run of the opening specification.
MaxOpens == 2

\* -------------------------------------------------------- program constants
\* u64::to_be_bytes yields 8 bytes, each in 0..255.
KeyLen == 8
ByteBase == 256

\* ------------------------------------------------------------- small domains
Enqueuers == {"e1", "e2"}
Clients == {"c1"}
Handles == 1..MaxOpens
Terms == {"hello", "world"}
DocIds == {1, 2}
Sources == {"car"}
Alts == {"auto", "vehicle"}
Schemas == {"S", "T"}
NoSchema == "none"
NoKey == << >>

VARIABLES
    updates,      \* the Updates tree: 8-byte key -> encoded Update
    results,      \* the Updates-Results tree: 8-byte key -> encoded UpdateStatus
    nextId,       \* the store's id generator (Db::generate_id)
    db,           \* the Main, Words, DocsWords, Documents and Synonyms trees
    cache,        \* cache[h]: the ArcSwap<Cache> of the handle made by open h
    hpc,          \* hpc[h]: position of the h-th Index::new_raw call
    hschema,      \* hschema[h]: the Option<Schema> argument of that call
    callback,     \* callback[h]: whether handle h has an update callback set
    wpc,          \* wpc[h]: position of the worker spawned by open h
    wkey,         \* wkey[h]: the key the worker took from updates.iter().next()
    wsub,         \* wsub[h]: events delivered to the worker's subscription
    wupd,         \* wupd[h]: the decoded update bound inside the transaction
    wres,         \* wres[h]: the applier's result inside the transaction
    wdirty,       \* wdirty[h]: a transacted tree was written since the body began
    epc,          \* epc[e]: position of enqueuer e inside raw_push_update
    eid,          \* eid[e]: the id enqueuer e generated
    epayload,     \* epayload[e]: the serialized update enqueuer e is pushing
    returned,     \* ids that raw_push_update has returned to callers
    cpc,          \* cpc[c]: position of client c in update_status_blocking/as_ref
    cid,          \* cid[c]: the update id client c asks about
    csub,         \* csub[c]: events delivered to the client's subscription
    cstatus,      \* cstatus[c]: the status update_status_blocking returned
    csnap,        \* csnap[c]: the Cache the client's RefIndex holds
    inserted,     \* history: every entry ever inserted into Updates
    applyLog,     \* history: update ids in the order appliers were invoked
    resultLog,    \* history: update ids in the order results were committed
    cbLog,        \* history: statuses handed to the update callback
    cbAlways      \* history: every push so far began with the callback set,
                  \* and the callback was never unset

vars == << updates, results, nextId, db, cache, hpc, hschema, callback,
           wpc, wkey, wsub, wupd, wres, wdirty,
           epc, eid, epayload, returned,
           cpc, cid, csub, cstatus, csnap,
           inserted, applyLog, resultLog, cbLog, cbAlways >>

storeVars == << updates, results, nextId, db >>
handleVars == << cache, hpc, hschema, callback >>
workerVars == << wpc, wkey, wsub, wupd, wres, wdirty >>
enqVars == << epc, eid, epayload, returned >>
clientVars == << cpc, cid, csub, cstatus, csnap >>
histVars == << inserted, applyLog, resultLog, cbLog, cbAlways >>

\* ------------------------------------------------------------ keys (u64 ids)
RECURSIVE ShiftRight(_, _)
\* n >> (8 * k), by repeated division so that no power of 256 is computed.
ShiftRight(n, k) == IF k = 0 THEN n ELSE ShiftRight(n \div ByteBase, k - 1)

\* u64::to_be_bytes: most significant byte first.
ToBeBytes(n) == [i \in 1..KeyLen |-> ShiftRight(n, KeyLen - i) % ByteBase]

RECURSIVE FromBeBytesUpTo(_, _)
FromBeBytesUpTo(key, i) ==
    IF i = 0 THEN 0 ELSE FromBeBytesUpTo(key, i - 1) * ByteBase + key[i]

\* u64::from_be_bytes on the 8-byte key.
FromBeBytes(key) == FromBeBytesUpTo(key, KeyLen)

\* Byte-wise lexicographic order of two keys of the same length (sled's key order).
KeyLess(a, b) ==
    \E i \in 1..KeyLen :
        /\ a[i] < b[i]
        /\ \A j \in 1..(i - 1) : a[j] = b[j]

\* tree.iter().next(): the entry with the lowest key.
FirstKey(tree) ==
    CHOOSE k \in DOMAIN tree : \A j \in DOMAIN tree : j = k \/ KeyLess(k, j)

\* tree.insert(key, value)
TreeInsert(tree, key, value) ==
    [k \in DOMAIN tree \cup {key} |-> IF k = key THEN value ELSE tree[k]]

\* tree.remove(key)
TreeRemove(tree, key) == [k \in DOMAIN tree \ {key} |-> tree[k]]

EmptyTree == [k \in {} |-> {}]

\* ------------------------------------------------------------- update codec
UpdateKinds ==
    {"DocumentsAddition", "DocumentsDeletion", "SynonymsAddition", "SynonymsDeletion"}

\* The empty BTreeMap.
NoSynonyms == [s \in {} |-> [alts |-> {}, all |-> FALSE]]

\* The Update enum as a tagged record; the fields a variant does not carry are
\* empty.  documents and deletion are Vecs (sequences, duplicates kept), and
\* synonyms is a BTreeMap (a function on the sources it has entries for).
DocumentsAdditionUpdate(docs) ==
    [kind |-> "DocumentsAddition", documents |-> docs, deletion |-> << >>,
     synonyms |-> NoSynonyms]
DocumentsDeletionUpdate(ids) ==
    [kind |-> "DocumentsDeletion", documents |-> << >>, deletion |-> ids,
     synonyms |-> NoSynonyms]
SynonymsAdditionUpdate(syns) ==
    [kind |-> "SynonymsAddition", documents |-> << >>, deletion |-> << >>,
     synonyms |-> syns]
SynonymsDeletionUpdate(syns) ==
    [kind |-> "SynonymsDeletion", documents |-> << >>, deletion |-> << >>,
     synonyms |-> syns]

\* rmp_serde::to_vec_named(&Update): the variant name tags the payload.
EncodeUpdate(u) ==
    [variant |-> u.kind,
     payload |-> [documents |-> u.documents, deletion |-> u.deletion,
                  synonyms |-> u.synonyms]]

\* rmp_serde::from_read_ref::<UpdateOwned>: fails on a tag that is no variant.
DecodeOk(bytes) == bytes.variant \in UpdateKinds

DecodeUpdate(bytes) ==
    [kind |-> bytes.variant, documents |-> bytes.payload.documents,
     deletion |-> bytes.payload.deletion, synonyms |-> bytes.payload.synonyms]

\* A queued payload whose tag is none of the four variants.
MalformedBytes ==
    [variant |-> "Unknown",
     payload |-> [documents |-> << >>, deletion |-> << >>, synonyms |-> NoSynonyms]]

\* ------------------------------------------------------------ update status
OkResult == [ok |-> TRUE, msg |-> ""]
ErrResult(m) == [ok |-> FALSE, msg |-> m]

\* UpdateType { number } (lines 100, 107, 114, 119): Vec::len of the documents
\* or of the ids, duplicates counted, or BTreeMap::len of the synonyms.
UpdateTypeOf(u) ==
    [kind |-> u.kind,
     number |-> CASE u.kind = "DocumentsAddition" -> Len(u.documents)
                  [] u.kind = "DocumentsDeletion" -> Len(u.deletion)
                  [] OTHER -> Cardinality(DOMAIN u.synonyms)]

\* Mutant of MapErrToString: the applier's error is dropped and Ok is recorded.
MapErrDropped(res) == OkResult

\* result.map_err(|e| e.to_string()): Ok stays Ok, an error keeps its message.
MapErrToString(res) == IF res.ok THEN OkResult ELSE ErrResult(res.msg)

\* The UpdateStatus built after the applier returned (the duration is not modelled).
BuildStatus(id, u, res) ==
    [update_id |-> id, update_type |-> UpdateTypeOf(u), result |-> MapErrToString(res)]

\* bincode::serialize(&status) and bincode::deserialize.
SerializeStatus(st) == [bincode |-> st]
DeserializeStatus(bytes) == bytes.bincode

\* ------------------------------------------------- appliers (section 4.7)
\* A document of a DocumentsAddition: its id, whether the identifier attribute
\* is present, and the terms its indexed attributes tokenize to.
Document(i, identified, ws) == [id |-> i, identified |-> identified, words |-> ws]

\* A synonyms map with the one entry of source s: all = TRUE stands for the
\* value None ("remove every alternative of this source").
Synonym(s, as, all) == [x \in {s} |-> [alts |-> as, all |-> all]]

\* The elements of a Vec.
Range(seq) == {seq[i] : i \in DOMAIN seq}

\* An applier returns an error when a document carries no identifier.  The
\* identifier is resolved before anything of the document is written; in the
\* updates pushed here the document without identifier is the first of its
\* Vec, so the failing applier returns before its first write.
ApplierResult(u) ==
    IF u.kind = "DocumentsAddition" /\ \E doc \in Range(u.documents) : ~doc.identified
    THEN ErrResult("missing document identifier")
    ELSE OkResult

\* Set of terms with non-empty postings / sources with non-empty alternatives.
NonEmptyKeys(f) == {k \in DOMAIN f : f[k] # {}}

\* Each applier writes in steps, in the order of its contract: first the
\* index trees (postings, DocsWords, Documents, alternatives), then Main (the
\* Words or Synonyms FST and the ranked map), then the Cache.  Each step reads
\* the trees as they are when it runs.
ApplyDocumentsAdditionTrees(d, documents) ==
    LET docs     == Range(documents)
        postings == [t \in Terms |->
                        d.words[t] \cup {doc.id : doc \in {x \in docs : t \in x.words}}]
        docWords == [i \in DocIds |->
                        d.docs_words[i]
                            \cup UNION {doc.words : doc \in {x \in docs : x.id = i}}]
    IN [d EXCEPT !.words = postings,
                 !.docs_words = docWords,
                 !.documents = d.documents \cup {doc.id : doc \in docs}]

\* "Commit a new Words FST equal to the union of existing and new terms."
ApplyDocumentsAdditionMain(d, ranked_map, documents) ==
    LET docs == Range(documents)
    IN [d EXCEPT !.main.words = d.main.words \cup UNION {doc.words : doc \in docs},
                 !.main.ranked_map = ranked_map \cup {doc.id : doc \in docs}]

ApplyDocumentsDeletionTrees(d, deletion) ==
    LET ids      == Range(deletion)
        affected == UNION {d.docs_words[i] : i \in ids \cap DocIds}
    IN [d EXCEPT !.words = [t \in Terms |->
                               IF t \in affected THEN d.words[t] \ ids ELSE d.words[t]],
                 !.docs_words = [i \in DocIds |->
                                    IF i \in ids THEN {} ELSE d.docs_words[i]],
                 !.documents = d.documents \ ids]

\* "Rebuild the Words FST as the set of remaining non-empty terms."
ApplyDocumentsDeletionMain(d, ranked_map, deletion) ==
    [d EXCEPT !.main.words = NonEmptyKeys(d.words),
              !.main.ranked_map = ranked_map \ Range(deletion)]

ApplySynonymsAdditionTrees(d, syns) ==
    [d EXCEPT !.synonyms = [s \in Sources |->
                               IF s \in DOMAIN syns
                               THEN d.synonyms[s] \cup syns[s].alts
                               ELSE d.synonyms[s]]]

ApplySynonymsDeletionTrees(d, syns) ==
    [d EXCEPT !.synonyms = [s \in Sources |->
                               IF s \notin DOMAIN syns THEN d.synonyms[s]
                               ELSE IF syns[s].all THEN {}
                               ELSE d.synonyms[s] \ syns[s].alts]]

\* "Rebuild the Synonyms FST as the set of sources with non-empty alternatives."
ApplySynonymsMain(d) == [d EXCEPT !.main.synonyms = NonEmptyKeys(d.synonyms)]

\* The first step of the applier the worker dispatches to (lines 98-125).
ApplierTrees(d, u) ==
    CASE u.kind = "DocumentsAddition" -> ApplyDocumentsAdditionTrees(d, u.documents)
      [] u.kind = "DocumentsDeletion" -> ApplyDocumentsDeletionTrees(d, u.deletion)
      [] u.kind = "SynonymsAddition"  -> ApplySynonymsAdditionTrees(d, u.synonyms)
      [] OTHER                        -> ApplySynonymsDeletionTrees(d, u.synonyms)

\* Its second step; the documents appliers are handed the ranked map of the
\* worker's cache (lines 101, 108).
ApplierMain(d, ranked_map, u) ==
    CASE u.kind = "DocumentsAddition" -> ApplyDocumentsAdditionMain(d, ranked_map, u.documents)
      [] u.kind = "DocumentsDeletion" -> ApplyDocumentsDeletionMain(d, ranked_map, u.deletion)
      [] OTHER                        -> ApplySynonymsMain(d)

\* The Cache an applier installs after a successful mutation: the part the
\* update affects is rebuilt from Main, the rest is kept.
ApplierCache(c, d, u) ==
    IF u.kind \in {"DocumentsAddition", "DocumentsDeletion"}
    THEN [c EXCEPT !.words = d.main.words, !.ranked_map = d.main.ranked_map]
    ELSE [c EXCEPT !.synonyms = d.main.synonyms]

\* ------------------------------------------------------------ subscriptions
\* sled::Event::Set(key, value) and sled::Event::Remove(key).
SetEvent(key) == [kind |-> "Set", key |-> key]
RemoveEvent(key) == [kind |-> "Remove", key |-> key]

\* Mutant of event_is_set: the wrong variant of sled::Event is matched.
event_is_remove(event) == event.kind = "Remove"

\* Lines 40-45.
event_is_set(event) == event.kind = "Set"

\* watch_prefix(prefix) delivers the events whose key starts with prefix.
HasPrefix(key, prefix) ==
    /\ Len(prefix) <= Len(key)
    /\ \A i \in 1..Len(prefix) : key[i] = prefix[i]

\* The worker's subscription lives from watch_prefix (line 87) to the end of
\* the loop iteration (line 148), and is dropped when the thread panics.
WorkerWatching(h) ==
    wpc[h] \in {"iter", "remove", "apply", "main", "cache", "status", "commit", "block"}

\* The worker is between the first statement of the transaction body and its commit.
InBody(h) == wpc[h] \in {"apply", "main", "cache", "status", "commit"}

\* An event on the Updates tree reaches every live worker subscription
\* (their prefix is empty, line 87).
NotifyWorkers(event) ==
    [h \in Handles |->
        IF WorkerWatching(h) /\ HasPrefix(event.key, << >>)
        THEN Append(wsub[h], event) ELSE wsub[h]]

\* Mutant of StatusPrefix: the subscription is on the empty prefix, as the
\* worker's is (line 87), and so gets the events of every id.
StatusPrefixOfAll(id) == << >>

\* Mutant of StatusPrefix: the id is encoded least significant byte first.
StatusPrefixLittleEndian(id) == [i \in 1..KeyLen |-> ShiftRight(id, i - 1) % ByteBase]

\* Line 343: update_id.to_be_bytes().to_vec(), the prefix update_status_blocking
\* subscribes to.
StatusPrefix(id) == ToBeBytes(id)

\* An event on the Updates-Results tree reaches the clients whose subscription
\* (line 344) is on a prefix of the event's key.
NotifyClients(event) ==
    [c \in Clients |->
        IF cpc[c] \in {"check", "wait"} /\ HasPrefix(event.key, StatusPrefix(cid[c]))
        THEN Append(csub[c], event) ELSE csub[c]]

\* A write by writer to a tree of the transaction (Updates, Updates-Results)
\* conflicts with every other transaction whose body is running.
MarkDirty(writer) ==
    [h \in Handles |-> IF h # writer /\ InBody(h) THEN TRUE ELSE wdirty[h]]

\* --------------------------------------------------------------- initial state
EmptyDb ==
    [main       |-> [schema |-> NoSchema, words |-> {}, synonyms |-> {},
                     ranked_map |-> {}],
     words      |-> [t \in Terms |-> {}],
     docs_words |-> [i \in DocIds |-> {}],
     documents  |-> {},
     synonyms   |-> [s \in Sources |-> {}]]

\* Cache { words, synonyms, schema, ranked_map } (lines 178-183).
EmptyCache ==
    [words |-> {}, synonyms |-> {}, schema |-> NoSchema, ranked_map |-> {}]

NoUpdate == [kind |-> "none", documents |-> << >>, deletion |-> << >>,
             synonyms |-> NoSynonyms]
NoStatus == [update_id |-> -1, update_type |-> [kind |-> "none", number |-> 0],
             result |-> ErrResult("none")]

\* Everything but the store and the handles: no thread has started anything.
InitThreads ==
    /\ wkey = [h \in Handles |-> NoKey]
    /\ wsub = [h \in Handles |-> << >>]
    /\ wupd = [h \in Handles |-> NoUpdate]
    /\ wres = [h \in Handles |-> OkResult]
    /\ wdirty = [h \in Handles |-> FALSE]
    /\ epc = [e \in Enqueuers |-> "idle"]
    /\ eid = [e \in Enqueuers |-> 0]
    /\ epayload = [e \in Enqueuers |-> MalformedBytes]
    /\ returned = {}
    /\ cpc = [c \in Clients |-> "idle"]
    /\ cid = [c \in Clients |-> 0]
    /\ csub = [c \in Clients |-> << >>]
    /\ cstatus = [c \in Clients |-> NoStatus]
    /\ csnap = [c \in Clients |-> EmptyCache]
    /\ inserted = EmptyTree
    /\ applyLog = << >>
    /\ resultLog = << >>
    /\ cbLog = << >>
    /\ cbAlways = TRUE

\* The state after Index::with_schema(db, name, "S") on a fresh store: the
\* schema is written, the cache built, and the worker of handle 1 spawned.
Init ==
    /\ updates = EmptyTree
    /\ results = EmptyTree
    /\ nextId = 0
    /\ db = [EmptyDb EXCEPT !.main.schema = "S"]
    /\ cache = [h \in Handles |-> IF h = 1 THEN [EmptyCache EXCEPT !.schema = "S"]
                                  ELSE EmptyCache]
    /\ hpc = [h \in Handles |-> IF h = 1 THEN "open" ELSE "none"]
    /\ hschema = [h \in Handles |-> IF h = 1 THEN "S" ELSE NoSchema]
    /\ callback = [h \in Handles |-> FALSE]
    /\ wpc = [h \in Handles |-> IF h = 1 THEN "subscribe" ELSE "none"]
    /\ InitThreads

\* --------------------------------------------------------- the update worker
\* The worker thread has panicked: at updates.remove(..).unwrap() on a key that
\* is gone (line 96), at the decoding unwrap (line 98), or at the unwrap of the
\* transaction's result (line 142).  Nothing restarts it.
Dead(h) == wpc[h] \in {"panic_remove", "panic_decode", "panic_storage"}

\* Line 87: let subscription = index.updates_index.watch_prefix(vec![]).
WatchUpdates(h) ==
    /\ wpc[h] = "subscribe"
    /\ wpc' = [wpc EXCEPT ![h] = "iter"]
    /\ wsub' = [wsub EXCEPT ![h] = << >>]
    /\ UNCHANGED << wkey, wupd, wres, wdirty >>
    /\ UNCHANGED << storeVars, handleVars, enqVars, clientVars, histVars >>

\* Lines 88-90: index.updates_index.iter().next(); the lowest key is taken, and
\* with an empty tree the while loop ends and the worker goes to block.
IterNext(h) ==
    /\ wpc[h] = "iter"
    /\ IF DOMAIN updates = {}
       THEN /\ wpc' = [wpc EXCEPT ![h] = "block"]
            /\ UNCHANGED wkey
       ELSE /\ wpc' = [wpc EXCEPT ![h] = "remove"]
            /\ wkey' = [wkey EXCEPT ![h] = FirstKey(updates)]
    /\ UNCHANGED << wsub, wupd, wres, wdirty >>
    /\ UNCHANGED << storeVars, handleVars, enqVars, clientVars, histVars >>

\* Lines 95-98, the start of the transaction body: updates.remove(&key)?.unwrap()
\* stages the removal and binds the payload, which is decoded with
\* rmp_serde::from_read_ref(..).unwrap().  Either unwrap panics the thread: the
\* first when the key is gone, the second when the payload does not decode.
TxnRemove(h) ==
    /\ wpc[h] = "remove"
    /\ IF wkey[h] \in DOMAIN updates /\ DecodeOk(updates[wkey[h]])
       THEN /\ wpc' = [wpc EXCEPT ![h] = "apply"]
            /\ wupd' = [wupd EXCEPT ![h] = DecodeUpdate(updates[wkey[h]])]
       ELSE /\ wpc' = [wpc EXCEPT ![h] = IF wkey[h] \in DOMAIN updates
                                         THEN "panic_decode" ELSE "panic_remove"]
            /\ UNCHANGED wupd
    /\ wdirty' = [wdirty EXCEPT ![h] = FALSE]
    /\ UNCHANGED << wkey, wsub, wres >>
    /\ UNCHANGED << storeVars, handleVars, enqVars, clientVars, histVars >>

\* Lines 99-124: the applier is called with &index, so what it writes goes to
\* the index's own trees, outside the (updates, results) transaction, and is
\* visible at once.  This is the applier's first step, on the index trees; an
\* applier that fails returns before it.
ApplyTrees(h) ==
    /\ wpc[h] = "apply"
    /\ wres' = [wres EXCEPT ![h] = ApplierResult(wupd[h])]
    /\ applyLog' = Append(applyLog, FromBeBytes(wkey[h]))
    /\ IF ApplierResult(wupd[h]).ok
       THEN /\ db' = ApplierTrees(db, wupd[h])
            /\ wpc' = [wpc EXCEPT ![h] = "main"]
       ELSE /\ UNCHANGED db
            /\ wpc' = [wpc EXCEPT ![h] = "status"]
    /\ UNCHANGED << wkey, wsub, wupd, wdirty >>
    /\ UNCHANGED << updates, results, nextId >>
    /\ UNCHANGED << handleVars, enqVars, clientVars, inserted, resultLog, cbLog, cbAlways >>

\* The applier's second step: it writes the FST and the ranked map to Main.
ApplyMain(h) ==
    /\ wpc[h] = "main"
    /\ db' = ApplierMain(db, cache[h].ranked_map, wupd[h])
    /\ wpc' = [wpc EXCEPT ![h] = "cache"]
    /\ UNCHANGED << wkey, wsub, wupd, wres, wdirty >>
    /\ UNCHANGED << updates, results, nextId >>
    /\ UNCHANGED << handleVars, enqVars, clientVars, histVars >>

\* The applier's last step: index.cache.store(new cache), on the handle it was
\* given.  The worker's loop has no step of its own between the commit (line
\* 142) and the next updates_index.iter() (line 88), so the Cache is replaced
\* inside the applier call, that is inside the transaction body and before
\* results.insert (line 140).
StoreCache(h) ==
    /\ wpc[h] = "cache"
    /\ cache' = [cache EXCEPT ![h] = ApplierCache(cache[h], db, wupd[h])]
    /\ wpc' = [wpc EXCEPT ![h] = "status"]
    /\ UNCHANGED << wkey, wsub, wupd, wres, wdirty >>
    /\ UNCHANGED << hpc, hschema, callback >>
    /\ UNCHANGED << storeVars, enqVars, clientVars, histVars >>

\* The status the body builds at lines 127-133.
WorkerStatus(h) == BuildStatus(FromBeBytes(wkey[h]), wupd[h], wres[h])

\* Lines 135-137: the callback, when one is set, is called with a clone of the status.
FireCallback(h) ==
    /\ wpc[h] = "status"
    /\ cbLog' = IF callback[h] THEN Append(cbLog, WorkerStatus(h)) ELSE cbLog
    /\ wpc' = [wpc EXCEPT ![h] = "commit"]
    /\ UNCHANGED << wkey, wsub, wupd, wres, wdirty >>
    /\ UNCHANGED << storeVars, handleVars, enqVars, clientVars >>
    /\ UNCHANGED << inserted, applyLog, resultLog, cbAlways >>

\* Mutant of CommitUpdates: the result is inserted but the queue entry stays.
CommitUpdatesKeepsEntry(tree, key) == tree

\* What the commit of the body leaves in the two trees of the transaction.
CommitUpdates(tree, key) == TreeRemove(tree, key)
CommitResults(tree, key, status) == TreeInsert(tree, key, SerializeStatus(status))

\* Lines 139-142: results.insert(&key, value) ends the body and the transaction
\* commits: the staged removal and insertion become visible together, and the
\* subscribers of the two trees get their events.
Commit(h) ==
    /\ wpc[h] = "commit"
    /\ wkey[h] \in DOMAIN updates
    /\ updates' = CommitUpdates(updates, wkey[h])
    /\ results' = CommitResults(results, wkey[h], WorkerStatus(h))
    /\ wsub' = NotifyWorkers(RemoveEvent(wkey[h]))
    /\ csub' = NotifyClients(SetEvent(wkey[h]))
    /\ wdirty' = MarkDirty(h)
    /\ resultLog' = Append(resultLog, FromBeBytes(wkey[h]))
    /\ wpc' = [wpc EXCEPT ![h] = "iter"]
    /\ UNCHANGED << wkey, wupd, wres >>
    /\ UNCHANGED << nextId, db, cpc, cid, cstatus, csnap >>
    /\ UNCHANGED << handleVars, enqVars, inserted, applyLog, cbLog, cbAlways >>

\* The transaction found a conflicting write to one of its trees: nothing is
\* committed and the body runs again from its first statement.
Retry(h) ==
    /\ wpc[h] = "commit"
    /\ wdirty[h]
    /\ wpc' = [wpc EXCEPT ![h] = "remove"]
    /\ UNCHANGED << wkey, wsub, wupd, wres, wdirty >>
    /\ UNCHANGED << storeVars, handleVars, enqVars, clientVars, histVars >>

\* Line 147: subscription.filter(event_is_set).next() returns at the first Set
\* event delivered since line 87; the loop then starts over and the
\* subscription is dropped.
Block(h) ==
    /\ wpc[h] = "block"
    /\ \E i \in 1..Len(wsub[h]) : event_is_set(wsub[h][i])
    /\ wpc' = [wpc EXCEPT ![h] = "subscribe"]
    /\ wsub' = [wsub EXCEPT ![h] = << >>]
    /\ UNCHANGED << wkey, wupd, wres, wdirty >>
    /\ UNCHANGED << storeVars, handleVars, enqVars, clientVars, histVars >>

\* ---------------------------------------------------------------- enqueuers
\* Mutant of GenerateId: the store's id counter is read but not advanced.
GenerateIdReused(e, u) ==
    /\ epc[e] = "idle"
    /\ \E h \in Handles : hpc[h] = "open"
    /\ nextId < MaxIds
    /\ eid' = [eid EXCEPT ![e] = nextId]
    /\ epayload' = [epayload EXCEPT ![e] = EncodeUpdate(u)]
    /\ epc' = [epc EXCEPT ![e] = "insert"]
    /\ cbAlways' = (cbAlways /\ \A h \in Handles : hpc[h] = "open" => callback[h])
    /\ UNCHANGED << updates, results, nextId, db, returned >>
    /\ UNCHANGED << handleVars, workerVars, clientVars >>
    /\ UNCHANGED << inserted, applyLog, resultLog, cbLog >>

\* push_*: the update is serialized (lines 397, 407, 417, 427), then
\* raw_push_update generates the id (line 432).
GenerateId(e, u) ==
    /\ epc[e] = "idle"
    /\ \E h \in Handles : hpc[h] = "open"
    /\ nextId < MaxIds
    /\ eid' = [eid EXCEPT ![e] = nextId]
    /\ epayload' = [epayload EXCEPT ![e] = EncodeUpdate(u)]
    /\ nextId' = nextId + 1
    /\ epc' = [epc EXCEPT ![e] = "insert"]
    /\ cbAlways' = (cbAlways /\ \A h \in Handles : hpc[h] = "open" => callback[h])
    /\ UNCHANGED << updates, results, db, returned >>
    /\ UNCHANGED << handleVars, workerVars, clientVars >>
    /\ UNCHANGED << inserted, applyLog, resultLog, cbLog >>

\* Lines 433-437: updates_index.insert(update_id_array, raw_update); Ok(update_id).
InsertUpdate(e) ==
    /\ epc[e] = "insert"
    /\ updates' = TreeInsert(updates, ToBeBytes(eid[e]), epayload[e])
    /\ wsub' = NotifyWorkers(SetEvent(ToBeBytes(eid[e])))
    /\ wdirty' = MarkDirty(0)
    /\ inserted' = TreeInsert(inserted, ToBeBytes(eid[e]), epayload[e])
    /\ returned' = returned \cup {eid[e]}
    /\ epc' = [epc EXCEPT ![e] = "idle"]
    /\ UNCHANGED << results, nextId, db, eid, epayload >>
    /\ UNCHANGED << wpc, wkey, wupd, wres >>
    /\ UNCHANGED << handleVars, clientVars, applyLog, resultLog, cbLog, cbAlways >>

\* ------------------------------------------------------------------ clients
\* Mutant of update_status: the key is built with the id's bytes reversed.
update_status_little_endian(tree, id) ==
    IF StatusPrefixLittleEndian(id) \in DOMAIN tree
    THEN [some |-> TRUE, status |-> DeserializeStatus(tree[StatusPrefixLittleEndian(id)])]
    ELSE [some |-> FALSE, status |-> NoStatus]

\* update_status (lines 323-336): Some(status) when the key is in
\* Updates-Results, None otherwise.
update_status(tree, id) ==
    IF ToBeBytes(id) \in DOMAIN tree
    THEN [some |-> TRUE, status |-> DeserializeStatus(tree[ToBeBytes(id)])]
    ELSE [some |-> FALSE, status |-> NoStatus]

\* update_status_blocking, lines 343-344: subscribe to the id's key prefix.
StatusWatch(c, id) ==
    /\ cpc[c] = "idle"
    /\ id \in returned
    /\ cid' = [cid EXCEPT ![c] = id]
    /\ csub' = [csub EXCEPT ![c] = << >>]
    /\ cpc' = [cpc EXCEPT ![c] = "check"]
    /\ UNCHANGED << cstatus, csnap >>
    /\ UNCHANGED << storeVars, handleVars, workerVars, enqVars, histVars >>

\* Lines 347-349: return the result when it is already there, else go to wait.
StatusCheck(c) ==
    /\ cpc[c] = "check"
    /\ IF update_status(results, cid[c]).some
       THEN /\ cstatus' = [cstatus EXCEPT ![c] = update_status(results, cid[c]).status]
            /\ cpc' = [cpc EXCEPT ![c] = "returned"]
            /\ csub' = [csub EXCEPT ![c] = << >>]
       ELSE /\ cpc' = [cpc EXCEPT ![c] = "wait"]
            /\ UNCHANGED << cstatus, csub >>
    /\ UNCHANGED << cid, csnap >>
    /\ UNCHANGED << storeVars, handleVars, workerVars, enqVars, histVars >>

\* Lines 353-357: subscription.next() returns at the first event, of any kind;
\* the result is then read again and unwrapped, which panics when it is absent.
StatusWake(c) ==
    /\ cpc[c] = "wait"
    /\ csub[c] # << >>
    /\ IF update_status(results, cid[c]).some
       THEN /\ cstatus' = [cstatus EXCEPT ![c] = update_status(results, cid[c]).status]
            /\ cpc' = [cpc EXCEPT ![c] = "returned"]
       ELSE /\ cpc' = [cpc EXCEPT ![c] = "panicked"]
            /\ UNCHANGED cstatus
    /\ csub' = [csub EXCEPT ![c] = << >>]
    /\ UNCHANGED << cid, csnap >>
    /\ UNCHANGED << storeVars, handleVars, workerVars, enqVars, histVars >>

\* as_ref (lines 287-297) on handle h, after the status came back: the RefIndex
\* keeps the Cache that cache.load() returned.
AsRef(c, h) ==
    /\ cpc[c] = "returned"
    /\ hpc[h] = "open"
    /\ csnap' = [csnap EXCEPT ![c] = cache[h]]
    /\ cpc' = [cpc EXCEPT ![c] = "loaded"]
    /\ UNCHANGED << cid, csub, cstatus >>
    /\ UNCHANGED << storeVars, handleVars, workerVars, enqVars, histVars >>

\* ------------------------------------------------------------ Index::new_raw
\* Lines 195-207: the trees are opened by name and the words set is read from
\* Main.  The cache under construction is a local of the call until the Index
\* is built.
OpenBegin(h, schema) ==
    /\ hpc[h] = "none"
    /\ \A g \in Handles : g < h => hpc[g] # "none"
    /\ hschema' = [hschema EXCEPT ![h] = schema]
    /\ cache' = [cache EXCEPT ![h] = [EmptyCache EXCEPT !.words = db.main.words]]
    /\ hpc' = [hpc EXCEPT ![h] = "synonyms"]
    /\ UNCHANGED callback
    /\ UNCHANGED << storeVars, workerVars, enqVars, clientVars, histVars >>

\* Lines 209-212: the synonyms set is read from Main, in a read of its own.
OpenSynonyms(h) ==
    /\ hpc[h] = "synonyms"
    /\ cache' = [cache EXCEPT ![h].synonyms = db.main.synonyms]
    /\ hpc' = [hpc EXCEPT ![h] = "schema"]
    /\ UNCHANGED << hschema, callback >>
    /\ UNCHANGED << storeVars, workerVars, enqVars, clientVars, histVars >>

\* Mutant of OpenSchema: the comparison of line 216 is missing, so a call with
\* a schema other than the persisted one goes on with its own schema.
OpenSchemaIgnoresMismatch(h) ==
    /\ hpc[h] = "schema"
    /\ LET current == db.main.schema
           schema  == hschema[h]
       IN CASE schema # NoSchema /\ current # NoSchema ->
                 /\ hpc' = [hpc EXCEPT ![h] = "ranked_map"]
                 /\ cache' = [cache EXCEPT ![h].schema = schema]
            [] schema # NoSchema /\ current = NoSchema ->
                 /\ hpc' = [hpc EXCEPT ![h] = "set_schema"]
                 /\ cache' = [cache EXCEPT ![h].schema = schema]
            [] schema = NoSchema /\ current # NoSchema ->
                 /\ hpc' = [hpc EXCEPT ![h] = "ranked_map"]
                 /\ cache' = [cache EXCEPT ![h].schema = current]
            [] OTHER ->
                 /\ hpc' = [hpc EXCEPT ![h] = "SchemaMissing"]
                 /\ cache' = [cache EXCEPT ![h] = EmptyCache]
    /\ UNCHANGED << hschema, callback >>
    /\ UNCHANGED << storeVars, workerVars, enqVars, clientVars, histVars >>

\* Lines 214-225: the persisted schema is read and matched against the schema
\* argument.  The two error arms return: the call's locals are dropped.
OpenSchema(h) ==
    /\ hpc[h] = "schema"
    /\ LET current == db.main.schema
           schema  == hschema[h]
       IN CASE schema # NoSchema /\ current # NoSchema /\ current # schema ->
                 /\ hpc' = [hpc EXCEPT ![h] = "SchemaDiffer"]
                 /\ cache' = [cache EXCEPT ![h] = EmptyCache]
            [] schema # NoSchema /\ current # NoSchema /\ current = schema ->
                 /\ hpc' = [hpc EXCEPT ![h] = "ranked_map"]
                 /\ cache' = [cache EXCEPT ![h].schema = schema]
            [] schema # NoSchema /\ current = NoSchema ->
                 /\ hpc' = [hpc EXCEPT ![h] = "set_schema"]
                 /\ cache' = [cache EXCEPT ![h].schema = schema]
            [] schema = NoSchema /\ current # NoSchema ->
                 /\ hpc' = [hpc EXCEPT ![h] = "ranked_map"]
                 /\ cache' = [cache EXCEPT ![h].schema = current]
            [] OTHER ->
                 /\ hpc' = [hpc EXCEPT ![h] = "SchemaMissing"]
                 /\ cache' = [cache EXCEPT ![h] = EmptyCache]
    /\ UNCHANGED << hschema, callback >>
    /\ UNCHANGED << storeVars, workerVars, enqVars, clientVars, histVars >>

\* Line 220: main_index.set_schema(&expected), in the (Some, None) arm.
OpenSetSchema(h) ==
    /\ hpc[h] = "set_schema"
    /\ db' = [db EXCEPT !.main.schema = hschema[h]]
    /\ hpc' = [hpc EXCEPT ![h] = "ranked_map"]
    /\ UNCHANGED << updates, results, nextId, cache, hschema, callback >>
    /\ UNCHANGED << workerVars, enqVars, clientVars, histVars >>

\* Lines 227-251: the ranked map is read, the Cache and the Index are built,
\* and spawn_update_system starts a worker on a clone of the Index.
OpenFinish(h) ==
    /\ hpc[h] = "ranked_map"
    /\ cache' = [cache EXCEPT ![h].ranked_map = db.main.ranked_map]
    /\ hpc' = [hpc EXCEPT ![h] = "open"]
    /\ wpc' = [wpc EXCEPT ![h] = "subscribe"]
    /\ UNCHANGED << hschema, callback, wkey, wsub, wupd, wres, wdirty >>
    /\ UNCHANGED << storeVars, enqVars, clientVars, histVars >>

\* ------------------------------------------------------- the update callback
\* set_update_callback (lines 254-258): the callback is stored in the handle's
\* update_callback, which the worker loads at each call (line 135); it can be
\* called at any time, also while the worker is inside its body.
set_update_callback(h) ==
    /\ hpc[h] = "open"
    /\ ~callback[h]
    /\ callback' = [callback EXCEPT ![h] = TRUE]
    /\ UNCHANGED << cache, hpc, hschema >>
    /\ UNCHANGED << storeVars, workerVars, enqVars, clientVars, histVars >>

\* unset_update_callback (lines 260-262): update_callback is emptied.
unset_update_callback(h) ==
    /\ hpc[h] = "open"
    /\ callback[h]
    /\ callback' = [callback EXCEPT ![h] = FALSE]
    /\ cbAlways' = FALSE
    /\ UNCHANGED << cache, hpc, hschema >>
    /\ UNCHANGED << storeVars, workerVars, enqVars, clientVars >>
    /\ UNCHANGED << inserted, applyLog, resultLog, cbLog >>

\* ----------------------------------------------------------- storage errors
\* updates.remove(&key)? (line 96), results.insert (line 140) or the commit
\* returns a storage error: the transaction returns Err, nothing is committed,
\* and .unwrap() (line 142) panics the worker thread.  So does result.unwrap()
\* (line 89) when updates_index.iter() yields a storage error.
StorageFail(h) ==
    /\ wpc[h] \in {"iter", "remove", "commit"}
    /\ wpc' = [wpc EXCEPT ![h] = "panic_storage"]
    /\ UNCHANGED << wkey, wsub, wupd, wres, wdirty >>
    /\ UNCHANGED << storeVars, handleVars, enqVars, clientVars, histVars >>

\* ------------------------------------------------------------ specifications
\* The updates callers push.
AddHello == DocumentsAdditionUpdate(<< Document(1, TRUE, {"hello"}) >>)
AddUnidentified == DocumentsAdditionUpdate(<< Document(1, FALSE, {"world"}) >>)
DeleteDoc == DocumentsDeletionUpdate(<< 1 >>)
AddCar == SynonymsAdditionUpdate(Synonym("car", {"auto"}, FALSE))
RemoveCar == SynonymsDeletionUpdate(Synonym("car", {}, TRUE))

PipelineUpdates == {AddHello, AddUnidentified, DeleteDoc, AddCar}
StatusUpdates == {AddHello, AddUnidentified}

WorkerStep(h) ==
    \/ WatchUpdates(h)
    \/ IterNext(h)
    \/ TxnRemove(h)
    \/ ApplyTrees(h)
    \/ ApplyMain(h)
    \/ StoreCache(h)
    \/ FireCallback(h)
    \/ Commit(h)
    \/ Retry(h)
    \/ Block(h)

ClientStep(c) ==
    \/ \E id \in 0..(MaxIds - 1) : StatusWatch(c, id)
    \/ StatusCheck(c)
    \/ StatusWake(c)
    \/ \E h \in Handles : AsRef(c, h)

\* One handle and its worker, and two threads that enqueue.
Next ==
    \/ \E h \in Handles : WorkerStep(h)
    \/ \E e \in Enqueuers : \E u \in PipelineUpdates : GenerateId(e, u)
    \/ \E e \in Enqueuers : InsertUpdate(e)

Spec == Init /\ [][Next]_vars

\* The worker is a thread of its own: it takes its next step when it has one.
WorkerFairness == \A h \in Handles : WF_vars(WorkerStep(h))

\* The pipeline with the worker scheduled fairly; callers push the two
\* documents additions, one that applies and one whose applier fails.
LiveNext ==
    \/ \E h \in Handles : WorkerStep(h)
    \/ \E e \in Enqueuers : \E u \in StatusUpdates : GenerateId(e, u)
    \/ \E e \in Enqueuers : InsertUpdate(e)

LiveSpec == Init /\ [][LiveNext]_vars /\ WorkerFairness

\* One handle and its worker, one enqueuing thread, and a client that blocks on
\* the status of an update and then takes a RefIndex.
StatusNext ==
    \/ \E h \in Handles : WorkerStep(h)
    \/ \E u \in StatusUpdates : GenerateId("e1", u)
    \/ InsertUpdate("e1")
    \/ \E c \in Clients : ClientStep(c)

StatusSpec == Init /\ [][StatusNext]_vars

ClientFairness == \A c \in Clients : WF_vars(StatusCheck(c) \/ StatusWake(c))

StatusLiveSpec == StatusSpec /\ WorkerFairness /\ ClientFairness

\* The state after Index::new(db, name) on a store that already holds the
\* schema "S" and, possibly, one queued entry that no variant of UpdateOwned
\* decodes (written by another version of the program): handle 1 is open and
\* its worker spawned.
LeftoverInit ==
    /\ \E leftover \in BOOLEAN :
          /\ updates = IF leftover THEN TreeInsert(EmptyTree, ToBeBytes(0), MalformedBytes)
                       ELSE EmptyTree
          /\ nextId = IF leftover THEN 1 ELSE 0
          /\ inserted = updates
    /\ results = EmptyTree
    /\ db = [EmptyDb EXCEPT !.main.schema = "S"]
    /\ cache = [h \in Handles |-> IF h = 1 THEN [EmptyCache EXCEPT !.schema = "S"]
                                  ELSE EmptyCache]
    /\ hpc = [h \in Handles |-> IF h = 1 THEN "open" ELSE "none"]
    /\ hschema = [h \in Handles |-> NoSchema]
    /\ callback = [h \in Handles |-> FALSE]
    /\ wpc = [h \in Handles |-> IF h = 1 THEN "subscribe" ELSE "none"]
    /\ wkey = [h \in Handles |-> NoKey]
    /\ wsub = [h \in Handles |-> << >>]
    /\ wupd = [h \in Handles |-> NoUpdate]
    /\ wres = [h \in Handles |-> OkResult]
    /\ wdirty = [h \in Handles |-> FALSE]
    /\ epc = [e \in Enqueuers |-> "idle"]
    /\ eid = [e \in Enqueuers |-> 0]
    /\ epayload = [e \in Enqueuers |-> MalformedBytes]
    /\ returned = {}
    /\ cpc = [c \in Clients |-> "idle"]
    /\ cid = [c \in Clients |-> 0]
    /\ csub = [c \in Clients |-> << >>]
    /\ cstatus = [c \in Clients |-> NoStatus]
    /\ csnap = [c \in Clients |-> EmptyCache]
    /\ applyLog = << >>
    /\ resultLog = << >>
    /\ cbLog = << >>
    /\ cbAlways = TRUE

\* The pipeline started on a store that may hold an undecodable queued entry.
LeftoverSpec == LeftoverInit /\ [][LiveNext]_vars

\* The pipeline with storage errors in the worker's transaction.
StorageNext ==
    \/ \E h \in Handles : WorkerStep(h)
    \/ \E h \in Handles : StorageFail(h)
    \/ \E e \in Enqueuers : \E u \in StatusUpdates : GenerateId(e, u)
    \/ \E e \in Enqueuers : InsertUpdate(e)

StorageSpec == Init /\ [][StorageNext]_vars

\* A fresh store: no tree holds anything and no handle is open.
FreshInit ==
    /\ updates = EmptyTree
    /\ results = EmptyTree
    /\ nextId = 0
    /\ db = EmptyDb
    /\ cache = [h \in Handles |-> EmptyCache]
    /\ hpc = [h \in Handles |-> "none"]
    /\ hschema = [h \in Handles |-> NoSchema]
    /\ callback = [h \in Handles |-> FALSE]
    /\ wpc = [h \in Handles |-> "none"]
    /\ InitThreads

\* Index::new and Index::with_schema are called on the same store and name,
\* possibly at the same time; every handle they return has its worker, and a
\* caller pushes documents additions and synonyms additions.
OpenUpdates == {AddHello, AddCar}

OpenNext ==
    \/ \E h \in Handles : \E schema \in Schemas \cup {NoSchema} : OpenBegin(h, schema)
    \/ \E h \in Handles : OpenSynonyms(h)
    \/ \E h \in Handles : OpenSchema(h)
    \/ \E h \in Handles : OpenSetSchema(h)
    \/ \E h \in Handles : OpenFinish(h)
    \/ \E h \in Handles : WorkerStep(h)
    \/ \E u \in OpenUpdates : GenerateId("e1", u)
    \/ InsertUpdate("e1")

OpenSpec == FreshInit /\ [][OpenNext]_vars

\* ------------------------------------------------------------------- claims
\* C1: outside the worker's transaction no update id is in both Updates and
\* Updates-Results, and every id that has left Updates is in Updates-Results.
AtomicMove ==
    /\ DOMAIN updates \cap DOMAIN results = {}
    /\ \A k \in DOMAIN inserted : k \notin DOMAIN updates => k \in DOMAIN results

\* One update has been moved to Updates-Results, another is queued, and the
\* worker is inside the transaction that moves it.
AtomicMoveWitness ==
    /\ DOMAIN results # {}
    /\ \E h \in Handles : wpc[h] = "commit" /\ wkey[h] \in DOMAIN updates

\* C2 (as claimed): results are inserted into Updates-Results in increasing id
\* order, whatever the interleaving of the enqueuers with the worker.
ResultsInIdOrder ==
    \A i, j \in 1..Len(resultLog) : i < j => resultLog[i] < resultLog[j]

\* C3 (as claimed): the applier of an update id is never invoked twice, and
\* every id that got a result had its applier invoked.
AppliedExactlyOnce ==
    /\ \A i, j \in 1..Len(applyLog) : i # j => applyLog[i] # applyLog[j]
    /\ \A i \in 1..Len(resultLog) : \E j \in 1..Len(applyLog) : applyLog[j] = resultLog[i]

\* C7: an update whose applier returns an error is removed from Updates and
\* gets the status Err(message) under its id; the worker does not stop, and it
\* does not sleep while an update is queued and no Set event is pending.
ApplierErrorRecorded ==
    /\ \A h \in Handles : ~Dead(h)
    /\ \A h \in Handles :
          wpc[h] = "block" /\ DOMAIN updates # {}
              => \E i \in 1..Len(wsub[h]) : event_is_set(wsub[h][i])
    /\ \A k \in DOMAIN inserted :
          ~ApplierResult(DecodeUpdate(inserted[k])).ok
              => /\ k \in DOMAIN updates \/ k \in DOMAIN results
                 /\ k \in DOMAIN results
                       => /\ k \notin DOMAIN updates
                          /\ DeserializeStatus(results[k]).update_id = FromBeBytes(k)
                          /\ DeserializeStatus(results[k]).result
                                = ErrResult(ApplierResult(DecodeUpdate(inserted[k])).msg)

\* A failed update has its Err status, and an update queued behind it was
\* applied afterwards with the result Ok.
ApplierErrorWitness ==
    \E i, j \in 1..Len(resultLog) :
        /\ i < j
        /\ resultLog[i] < resultLog[j]
        /\ ~DeserializeStatus(results[ToBeBytes(resultLog[i])]).result.ok
        /\ DeserializeStatus(results[ToBeBytes(resultLog[j])]).result.ok

\* C5: with the worker scheduled fairly, every update inserted into Updates
\* eventually has its result in Updates-Results: an insert is never missed by
\* the worker's subscription, wherever the worker is in its loop.
EveryUpdateGetsResult ==
    \A id \in 0..(MaxIds - 1) :
        (ToBeBytes(id) \in DOMAIN updates) ~> (ToBeBytes(id) \in DOMAIN results)

\* The worker found Updates empty and went to block on its subscription, and an
\* update was inserted after that; an earlier update already has its result.
WakeUpWitness ==
    \E h \in Handles :
        /\ wpc[h] = "block"
        /\ DOMAIN updates # {}
        /\ DOMAIN results # {}

\* C4: with the worker and the caller scheduled fairly, update_status_blocking
\* called for an enqueued id returns the status of that id, whether the result
\* is inserted before the subscription, between it and the check, or after.
BlockingStatusReturns ==
    \A c \in Clients :
        (cpc[c] \in {"check", "wait"})
            ~> (cpc[c] = "returned" /\ cstatus[c].update_id = cid[c])

\* The caller found no result at its check and waits; the result was inserted
\* after the check and its event is in the caller's subscription.
BlockingStatusWitness ==
    \E c \in Clients :
        /\ cpc[c] = "wait"
        /\ csub[c] # << >>
        /\ ToBeBytes(cid[c]) \in DOMAIN results

\* Two handles on one store: the state after Index::with_schema(db, name, "S")
\* and then Index::new(db, name) returned, each with its own cache (lines
\* 232-233) and its own worker (line 249).
SharedInit ==
    /\ updates = EmptyTree
    /\ results = EmptyTree
    /\ nextId = 0
    /\ db = [EmptyDb EXCEPT !.main.schema = "S"]
    /\ cache = [h \in Handles |-> IF h \in {1, 2} THEN [EmptyCache EXCEPT !.schema = "S"]
                                  ELSE EmptyCache]
    /\ hpc = [h \in Handles |-> IF h \in {1, 2} THEN "open" ELSE "none"]
    /\ hschema = [h \in Handles |-> IF h = 1 THEN "S" ELSE NoSchema]
    /\ callback = [h \in Handles |-> FALSE]
    /\ wpc = [h \in Handles |-> IF h \in {1, 2} THEN "subscribe" ELSE "none"]
    /\ InitThreads

\* Updates that add and remove terms.
SnapshotUpdates == {AddHello, DeleteDoc}

\* Two handles and their workers, one enqueuing thread, and a client that asks
\* for the status of an update and then takes a RefIndex of either handle.
SnapshotNext ==
    \/ \E h \in Handles : WorkerStep(h)
    \/ \E u \in SnapshotUpdates : GenerateId("e1", u)
    \/ InsertUpdate("e1")
    \/ \E c \in Clients : ClientStep(c)

SnapshotSpec == SharedInit /\ [][SnapshotNext]_vars

\* No worker has an update in hand, and nothing is queued.
Quiet ==
    /\ DOMAIN updates = {}
    /\ \A h \in Handles : wpc[h] \in {"none", "iter", "block"}

\* The snapshot holds what the update u did to the dictionaries: the terms or
\* sources it added are in it, those it left without postings or alternatives
\* are not.
SnapshotReflects(snap, u) ==
    CASE u.kind = "DocumentsAddition" ->
            \A doc \in Range(u.documents) : doc.words \subseteq snap.words
      [] u.kind = "DocumentsDeletion" ->
            \A t \in Terms : db.words[t] = {} => t \notin snap.words
      [] u.kind = "SynonymsAddition" ->
            \A src \in DOMAIN u.synonyms :
                u.synonyms[src].alts # {} => src \in snap.synonyms
      [] OTHER ->
            \A src \in Sources : db.synonyms[src] = {} => src \notin snap.synonyms

\* C6 (as claimed): once the status Ok of an update has come back, an as_ref()
\* on any handle of the index loads a Cache that reflects the update.  It is
\* asked of the as_ref() made while the update is the last one applied and the
\* workers are at rest, so that no later update and no applier still running
\* can account for a difference.
SnapshotFresh ==
    [][\A c \in Clients :
          /\ cpc[c] = "returned" /\ cpc'[c] = "loaded"
          /\ cstatus[c].result.ok
          /\ Quiet
          /\ resultLog[Len(resultLog)] = cstatus[c].update_id
          => SnapshotReflects(csnap'[c],
                              DecodeUpdate(inserted[ToBeBytes(cstatus[c].update_id)]))]_vars

\* C8 (as claimed): a queued payload that does not decode is removed from
\* Updates and gets a failed status under its id, and the worker does not stop
\* on it.
UndecodableEntryRecorded ==
    \A k \in DOMAIN inserted :
        ~DecodeOk(inserted[k])
            => /\ \A h \in Handles : ~(wpc[h] = "panic_decode" /\ wkey[h] = k)
               /\ k \notin DOMAIN updates
                     => /\ k \in DOMAIN results
                        /\ ~DeserializeStatus(results[k]).result.ok

\* C9 (as claimed): once a storage error in the transaction has terminated the
\* worker, no enqueue inserts an entry into Updates any more.
DeadWorkerRejectsEnqueue ==
    [][(\E h \in Handles : wpc[h] = "panic_storage")
          => DOMAIN updates' \subseteq DOMAIN updates]_vars

\* C10 (as claimed): at most one worker ever drains the Updates tree of an
\* index, and two workers never pick the same queued entry.
SingleWorker ==
    /\ Cardinality({h \in Handles : wpc[h] # "none"}) <= 1
    /\ \A h, g \in Handles :
          h # g /\ wpc[h] \in {"remove"} \cup {"apply", "main", "cache", "status", "commit"}
                /\ wpc[g] \in {"remove"} \cup {"apply", "main", "cache", "status", "commit"}
              => wkey[h] # wkey[g]


\* C11 (as claimed): the persisted schema, once written, never changes: the
\* schema in Main and the schema in the cache of every handle that was
\* returned are one and the same, the schema that was written first.
SchemaNeverChanges ==
    \A h \in Handles :
        hpc[h] = "open"
            => /\ db.main.schema # NoSchema
               /\ cache[h].schema = db.main.schema


\* Index::new and Index::with_schema on a store nobody pushes updates to: the
\* calls that open an index, with schema "S", with schema "T" or with none,
\* possibly at the same time, and the workers they spawn, which find the
\* queue empty and block.
SchemaNext ==
    \/ \E h \in Handles : \E schema \in Schemas \cup {NoSchema} : OpenBegin(h, schema)
    \/ \E h \in Handles : OpenSynonyms(h)
    \/ \E h \in Handles : OpenSchema(h)
    \/ \E h \in Handles : OpenSetSchema(h)
    \/ \E h \in Handles : OpenFinish(h)
    \/ \E h \in Handles : WatchUpdates(h)
    \/ \E h \in Handles : IterNext(h)

SchemaSpec == FreshInit /\ [][SchemaNext]_vars

\* The two ways new_raw fails (lines 216 and 224).
OpenFailures == {"SchemaDiffer", "SchemaMissing"}

\* C12: a call that opens the index with a schema different from the persisted
\* one fails with SchemaDiffer; a call without a schema fails with
\* SchemaMissing when none is persisted and otherwise succeeds with the
\* persisted schema in its cache; a failing call leaves the persisted schema
\* as it was, and a call that failed never yields a handle or a worker.
OpenOutcome ==
    [][\A h \in Handles :
          /\ hpc[h] = "schema" /\ hpc'[h] # "schema"
                => LET current == db.main.schema
                       schema == hschema[h]
                   IN /\ hpc'[h] = "SchemaDiffer"
                            <=> schema # NoSchema /\ current # NoSchema /\ current # schema
                      /\ hpc'[h] = "SchemaMissing"
                            <=> schema = NoSchema /\ current = NoSchema
                      /\ schema = NoSchema /\ current # NoSchema
                            => hpc'[h] = "ranked_map" /\ cache'[h].schema = current
                      /\ hpc'[h] \in OpenFailures
                            => db' = db /\ cache'[h] = EmptyCache /\ wpc'[h] = "none"
          /\ hpc[h] \in OpenFailures
                => hpc'[h] = hpc[h] /\ wpc'[h] = "none"]_vars

\* One call has opened the index and a later call with another schema has
\* failed with SchemaDiffer, the persisted schema being the first call's.
OpenOutcomeWitness ==
    \E h, g \in Handles :
        /\ hpc[h] = "open"
        /\ hpc[g] = "SchemaDiffer"
        /\ hschema[g] # NoSchema
        /\ db.main.schema = hschema[h]
        /\ db.main.schema # hschema[g]
        /\ wpc[g] = "none"


\* The pipeline of Spec with callers that set and unset the update callback
\* at any time.
CallbackNext ==
    \/ Next
    \/ \E h \in Handles : set_update_callback(h)
    \/ \E h \in Handles : unset_update_callback(h)

CallbackSpec == Init /\ [][CallbackNext]_vars

\* C13 (as claimed): with a callback registered for the whole run (set before
\* the first push and never unset), the callback is handed the status of every
\* consumed update exactly once and in id order, and each status it was handed
\* is the one update_status returns once the result is committed.
CallbackSeesEachOnce ==
    cbAlways
        => /\ \A i, j \in 1..Len(cbLog) :
                 i < j => cbLog[i].update_id < cbLog[j].update_id
           /\ \A k \in DOMAIN results :
                 \E i \in 1..Len(cbLog) : cbLog[i] = DeserializeStatus(results[k])


\* The index trees after the appliers of the first n committed updates, in the
\* order their results were committed, have run on the store Init describes.
RECURSIVE AppliedDb(_)
AppliedDb(n) ==
    IF n = 0
    THEN [EmptyDb EXCEPT !.main.schema = "S"]
    ELSE LET prev == AppliedDb(n - 1)
             u == DecodeUpdate(inserted[ToBeBytes(resultLog[n])])
         IN IF ApplierResult(u).ok
            THEN ApplierMain(ApplierTrees(prev, u), prev.main.ranked_map, u)
            ELSE prev

\* C14 (as claimed): the postings, DocsWords, Documents, the Words FST and the
\* RankedMap advance together with the move of the id from Updates to
\* Updates-Results: what the trees hold is what the committed updates wrote,
\* and nothing of an update that is still queued.
IndexAdvancesWithResults == db = AppliedDb(Len(resultLog))


\* Mutant of RefCache: the RefIndex loads the handle's cache again at each call.
RefCacheReloaded(c) == cache[1]

\* RefIndex (lines 441-449): its cache field is the guard as_ref got from
\* cache.load(); words() and synonyms() (lines 454-456, 462-464) read it.
RefCache(c) == csnap[c]
RefWords(c) == RefCache(c).words
RefSynonyms(c) == RefCache(c).synonyms

\* C15: the RefIndex that as_ref returns holds one whole Cache that a handle
\* had published when as_ref loaded it, and its words and synonyms stay the
\* same for as long as the RefIndex lives, whatever the worker stores in the
\* handle's cache meanwhile.
RefIndexStable ==
    [][\A c \in Clients :
          /\ cpc[c] = "returned" /\ cpc'[c] = "loaded"
                => \E h \in Handles : hpc[h] = "open" /\ RefCache(c)' = cache[h]
          /\ cpc[c] = "loaded"
                => /\ cpc'[c] = "loaded"
                   /\ RefWords(c)' = RefWords(c)
                   /\ RefSynonyms(c)' = RefSynonyms(c)]_vars

\* A RefIndex is alive and the worker has since stored a Cache with other
\* words in the handle it was taken from.
RefIndexStableWitness ==
    \E c \in Clients :
        /\ cpc[c] = "loaded"
        /\ RefWords(c) # cache[1].words


\* C16: update_status returns None for an id as long as Updates-Results has
\* no entry under it; from the step that inserts the result on, it returns
\* Some of the status of that id, and the same one after every later step:
\* no result is removed or overwritten.
StatusStable ==
    [][\A id \in 0..(MaxIds - 1) :
          /\ ToBeBytes(id) \notin DOMAIN results
                => ~update_status(results, id).some
          /\ ToBeBytes(id) \in DOMAIN results
                => /\ update_status(results, id).some
                   /\ update_status(results, id).status.update_id = id
                   /\ update_status(results', id) = update_status(results, id)]_vars

\* Two updates were enqueued and processed: update_status returns Some for
\* both of them, the later id included.
StatusStableWitness ==
    \E id, other \in returned :
        /\ id < other
        /\ update_status(results, id).some
        /\ update_status(results, other).some
        /\ DOMAIN updates = {}


\* C17 (as claimed): whenever no worker is inside its transaction, the words
\* set, the synonyms set and the ranked map in the cache of every open handle
\* equal the values persisted in Main.
CacheMatchesMain ==
    (\A g \in Handles : ~InBody(g))
        => \A h \in Handles :
              hpc[h] = "open"
                  => /\ cache[h].words = db.main.words
                     /\ cache[h].synonyms = db.main.synonyms
                     /\ cache[h].ranked_map = db.main.ranked_map


\* Updates of the four kinds for the dictionaries: an addition of two
\* documents that share a term, one with the same document twice in its Vec,
\* one whose applier fails, the deletion of document 1 (which leaves the
\* postings of document 2), a source added with two alternatives, one of them
\* removed, and all of them removed.
AddBoth ==
    DocumentsAdditionUpdate(<< Document(1, TRUE, {"hello"}),
                               Document(2, TRUE, {"hello", "world"}) >>)
AddHelloTwice ==
    DocumentsAdditionUpdate(<< Document(1, TRUE, {"hello"}), Document(1, TRUE, {"hello"}) >>)
AddCarTwo == SynonymsAdditionUpdate(Synonym("car", {"auto", "vehicle"}, FALSE))
RemoveAuto == SynonymsDeletionUpdate(Synonym("car", {"auto"}, FALSE))
DictUpdates ==
    {AddHello, AddBoth, AddHelloTwice, AddUnidentified, DeleteDoc,
     AddCarTwo, RemoveAuto, RemoveCar}

\* Two handles and their workers, and one thread that pushes updates of the
\* four kinds.
DictNext ==
    \/ \E h \in Handles : WorkerStep(h)
    \/ \E u \in DictUpdates : GenerateId("e1", u)
    \/ InsertUpdate("e1")

DictSpec == SharedInit /\ [][DictNext]_vars

\* C18 (as claimed): whenever no worker is inside an applier, the Words FST in
\* Main is the set of terms with non-empty postings and the Synonyms FST in
\* Main is the set of sources with non-empty alternatives.
DictionariesConsistent ==
    (\A h \in Handles : ~InBody(h))
        => /\ db.main.words = NonEmptyKeys(db.words)
           /\ db.main.synonyms = NonEmptyKeys(db.synonyms)

\* The same updates with one handle and its worker.
DictOneSpec == Init /\ [][DictNext]_vars


\* One handle and its worker, and two threads that push documents additions.
PushSpec == Init /\ [][LiveNext]_vars

\* C19: a push touches nothing but the id counter and the Updates tree.
\* Generating the id yields one that no entry was ever stored under and that
\* no other push holds; the insert adds that one entry with the pushed payload
\* to Updates, leaves every other entry as it was, and returns the id; neither
\* step changes Updates-Results, the index trees or a cache, runs an applier or
\* moves the worker.
EnqueueAddsOneEntry ==
    [][\A e \in Enqueuers :
          /\ epc[e] = "idle" /\ epc'[e] = "insert"
                => /\ ToBeBytes(eid'[e]) \notin DOMAIN inserted
                   /\ \A f \in Enqueuers \ {e} : epc[f] = "insert" => eid[f] # eid'[e]
                   /\ updates' = updates
                   /\ returned' = returned
                   /\ << results, db, cache, applyLog, wpc >>' = << results, db, cache, applyLog, wpc >>
          /\ epc[e] = "insert" /\ epc'[e] = "idle"
                => LET key == ToBeBytes(eid[e])
                   IN /\ key \notin DOMAIN updates \cup DOMAIN results
                      /\ DOMAIN updates' = DOMAIN updates \cup {key}
                      /\ \A k \in DOMAIN updates : updates'[k] = updates[k]
                      /\ updates'[key] = epayload[e]
                      /\ returned' = returned \cup {eid[e]}
                      /\ << results, db, cache, applyLog, wpc >>' = << results, db, cache, applyLog, wpc >>]_vars

\* An update was pushed after an earlier one got its result: it is queued
\* under its id, no applier has run on it and it has no result.
EnqueueAddsOneEntryWitness ==
    \E id \in returned :
        /\ ToBeBytes(id) \in DOMAIN updates
        /\ ToBeBytes(id) \notin DOMAIN results
        /\ \A i \in 1..Len(applyLog) : applyLog[i] # id
        /\ DOMAIN results # {}


\* C20: update_status_blocking never gets past its wait without the result
\* being there: every event its subscription delivers is for the id it asked
\* about and comes after that id's result was inserted, so the unwrap at line
\* 357 never finds the result absent.
WaitEndsWithResult ==
    \A c \in Clients :
        /\ cpc[c] # "panicked"
        /\ cpc[c] = "wait" /\ csub[c] # << >>
              => update_status(results, cid[c]).some

\* The caller waits for the later of two ids; both results are committed and
\* the one event in its subscription is the Set of the result it waits for.
WaitEndsWithResultWitness ==
    \E c \in Clients :
        /\ cpc[c] = "wait"
        /\ csub[c] = << SetEvent(ToBeBytes(cid[c])) >>
        /\ \E id \in returned : id < cid[c] /\ update_status(results, id).some

====
